---- MODULE Spec2Model ----
(***************************************************************************)
(* Name matching service (pedro-bonafe/api_meli_challenge).                *)
(*                                                                         *)
(* The model covers the normalizer (code/matching.py), the n-gram index    *)
(* and ranker (code/search_engine.py), the LRU query cache and the request *)
(* handler run_match (code/app.py) and the metrics collector               *)
(* (code/metrics.py).                                                      *)
(*                                                                         *)
(* Strings are sequences of characters; a character is a TLA+ string.     *)
(* Scores are exact rationals [n |-> numerator, d |-> denominator]: the    *)
(* program computes them in binary floating point, whose representation   *)
(* error is not modelled.                                                  *)
(***************************************************************************)
EXTENDS Integers, Sequences, FiniteSets, TLC

VARIABLES
    n_in,      \* normalizer: the raw input text
    n_out,     \* normalizer: successive results of normalize_strict, starting from n_in
    l_out,     \* normalizer: successive results of the first-generation normalize
    engine,    \* the SearchEngine built at startup: configuration, records_by_id, inverted
    calls,     \* ranker: the search_explain calls made so far, arguments and results
    cache,     \* the process-wide LRUCache
    metrics,   \* the process-wide Metrics
    log,       \* the last two run_match calls: arguments, response and what they observed
    tick,      \* cache history: the number of get and set calls made so far
    last_access, \* cache history: per key, the tick of its last set or hitting get
    lru_op,    \* cache history: the last call, and the keys held before and after it
    handlers,  \* concurrent service: per worker thread, the frame of its run_match call
    tally,     \* concurrent service: the calls started, and how the finished ones ended
    repo       \* repository: the source table and what build_repository made of it

vars ==
    <<n_in, n_out, l_out, engine, calls, cache, metrics, log, tick, last_access, lru_op,
      handlers, tally, repo>>

normalizer_vars == <<n_in, n_out, l_out>>

service_vars == <<cache, metrics, log>>

history_vars == <<tick, last_access, lru_op>>

NormalizerIdle == n_in = << >> /\ n_out = << >> /\ l_out = << >>

HistoryIdle == tick = 0 /\ last_access = << >> /\ lru_op = [ op |-> "none" ]

handler_vars == <<handlers, tally>>

NoCalls == [ started |-> 0, from_cache |-> 0, computed |-> 0, get_failed |-> 0, set_failed |-> 0 ]

HandlersIdle == handlers = << >> /\ tally = NoCalls

RepoIdle == repo = [ loader |-> "none" ]

\* F(x) with x evaluated once: an operator argument or a LET definition is an
\* expression that may be evaluated again at each of its uses, a bound
\* variable holds a value
Let(x, F(_)) == CHOOSE r \in { F(v) : v \in { x } } : TRUE

(***************************************************************************)
(* Characters.  Alphabet lists them in code point order.  "E_acute" is     *)
(* U+00C9, "e_acute" is U+00E9 and "comb_acute" is the combining mark      *)
(* U+0301 that NFKD decomposition produces.                                *)
(***************************************************************************)
Alphabet ==
    << "\t", " ", ",", ".", "7", "A", "D", "J", "N", "P", "R", "S", "Z",
       "a", "b", "c", "d", "e", "f", "g", "i", "j", "l", "n", "o", "p",
       "r", "s", "t", "u", "z", "E_acute", "e_acute", "comb_acute" >>

Ord(c) == CHOOSE i \in 1..Len(Alphabet) : Alphabet[i] = c

LowerLetters ==
    { "a", "b", "c", "d", "e", "f", "g", "i", "j", "l", "n", "o", "p",
      "r", "s", "t", "u", "z" }

UpperLetters == { "A", "D", "J", "N", "P", "R", "S", "Z" }

\* \s of the re module, and the characters str.strip() and str.split() remove
IsSpace(c) == c \in { " ", "\t" }

\* [a-zA-Z]
IsAsciiLetter(c) == c \in LowerLetters \cup UpperLetters

\* str.lower() on one character
LowerChar(c) ==
    CASE c = "A" -> "a"
      [] c = "D" -> "d"
      [] c = "J" -> "j"
      [] c = "N" -> "n"
      [] c = "P" -> "p"
      [] c = "R" -> "r"
      [] c = "S" -> "s"
      [] c = "Z" -> "z"
      [] c = "E_acute" -> "e_acute"
      [] OTHER -> c

\* unicodedata.normalize("NFKD", c) for one character
Nfkd(c) ==
    CASE c = "e_acute" -> << "e", "comb_acute" >>
      [] c = "E_acute" -> << "E", "comb_acute" >>
      [] OTHER -> << c >>

\* unicodedata.combining(c) != 0
IsCombining(c) == c = "comb_acute"

(***************************************************************************)
(* String helpers.                                                         *)
(***************************************************************************)
\* "".join(ss): piece by piece, a long list by halves
RECURSIVE Flatten(_)
Flatten(ss) ==
    IF ss = << >> THEN << >>
    ELSE IF Len(ss) <= 32 THEN Head(ss) \o Flatten(Tail(ss))
    ELSE Let(ss, LAMBDA v :
             Flatten(SubSeq(v, 1, Len(v) \div 2))
             \o Flatten(SubSeq(v, Len(v) \div 2 + 1, Len(v))))

MapChars(s, F(_)) == [ i \in 1..Len(s) |-> F(s[i]) ]

RECURSIVE LStrip(_)
LStrip(s) == IF s # << >> /\ IsSpace(Head(s)) THEN LStrip(Tail(s)) ELSE s

RECURSIVE RStrip(_)
RStrip(s) ==
    IF s # << >> /\ IsSpace(s[Len(s)]) THEN RStrip(SubSeq(s, 1, Len(s) - 1)) ELSE s

\* str.strip()
Strip(s) == RStrip(LStrip(s))

\* str.lower()
Lower(s) == MapChars(s, LowerChar)

\* matching.py strip_accents: NFKD, then drop the combining marks
strip_accents(s) ==
    SelectSeq(Flatten([ i \in 1..Len(s) |-> Nfkd(s[i]) ]), LAMBDA c : ~IsCombining(c))

\* the alternatives of TITLE_PAT, in the order the pattern lists them
Titles ==
    << <<"d","r">>, <<"d","r","a">>, <<"s","r">>, <<"s","r","a">>,
       <<"s","r","t","a">>, <<"i","n","g">>, <<"l","i","c">>, <<"p","r","o","f">> >>

StartsWithFold(s, t) ==
    /\ Len(s) >= Len(t)
    /\ \A i \in 1..Len(t) : LowerChar(s[i]) = t[i]

\* Length of the match of ^(title)\.?\s+ at the start of s with alternative t,
\* 0 when that alternative does not match.  \.? and \s+ are greedy; when the
\* period is followed by no space the pattern backtracks to an empty \.?,
\* which then needs a space where the period is, and fails.
TitleMatchLen(s, t) ==
    IF ~StartsWithFold(s, t) THEN 0
    ELSE LET afterTitle == SubSeq(s, Len(t) + 1, Len(s))
             dot        == IF afterTitle # << >> /\ Head(afterTitle) = "." THEN 1 ELSE 0
             afterDot   == SubSeq(afterTitle, dot + 1, Len(afterTitle))
             spaces     == Len(afterDot) - Len(LStrip(afterDot))
         IN  IF spaces = 0 THEN 0 ELSE Len(t) + dot + spaces

\* TITLE_PAT.sub("", s): the pattern is anchored, so at most one match is removed
TitleSub(s) ==
    LET hits == { k \in 1..Len(Titles) : TitleMatchLen(s, Titles[k]) > 0 }
    IN  IF hits = {} THEN s
        ELSE LET k == CHOOSE x \in hits : \A y \in hits : x <= y
             IN  SubSeq(s, TitleMatchLen(s, Titles[k]) + 1, Len(s))

\* NON_LETTER.sub(" ", s)
NonLetterSub(s) ==
    MapChars(s, LAMBDA c : IF IsAsciiLetter(c) \/ IsSpace(c) THEN c ELSE " ")

\* MULTISPACE.sub(" ", s): every maximal run of whitespace becomes one space,
\* that is, a whitespace character is kept (as a space) only where it starts
\* a run
MultispaceSub(s) ==
    LET marked == [ i \in 1..Len(s) |->
                      [ c |-> s[i], starts |-> (i = 1 \/ ~IsSpace(s[i - 1])) ] ]
        kept == SelectSeq(marked, LAMBDA m : ~IsSpace(m.c) \/ m.starts)
    IN  [ i \in 1..Len(kept) |-> IF IsSpace(kept[i].c) THEN " " ELSE kept[i].c ]

\* Python's None, kept apart from every text
None == << "NoneType" >>

\* str(name): a text is itself, None is the text "None"
Str(name) == IF name = None THEN << "N", "o", "n", "e" >> ELSE name

\* text or "": None and the empty text both give the empty text
OrEmpty(text) == IF text = None THEN << >> ELSE text

\* project/code/matching.py normalize_strict
normalize_strict(name) ==
    LET s1 == Lower(Strip(Str(name)))
        s2 == strip_accents(s1)
        s3 == TitleSub(s2)
        s4 == NonLetterSub(s3)
    IN  Strip(MultispaceSub(s4))

\* project/code/matching.py: normalize = normalize_strict
normalize(name) == normalize_strict(name)

\* str.split(): the maximal runs of non-whitespace characters
RECURSIVE Split(_)
Split(s) ==
    Let(LStrip(s), LAMBDA t :
        IF t = << >> THEN << >>
        ELSE Let(CHOOSE n \in 1..Len(t) :
                     /\ \A i \in 1..n : ~IsSpace(t[i])
                     /\ (n = Len(t) \/ IsSpace(t[n + 1])),
                 LAMBDA k : << SubSeq(t, 1, k) >> \o Split(SubSeq(t, k + 1, Len(t)))))

\* " ".join(tokens)
RECURSIVE Join(_)
Join(toks) ==
    IF toks = << >> THEN << >>
    ELSE IF Len(toks) = 1 THEN toks[1]
    ELSE toks[1] \o << " " >> \o Join(Tail(toks))

\* code/matching.py normalize (first generation): no title or punctuation removal
legacy_normalize(text) ==
    LET t1 == Lower(Strip(OrEmpty(text)))
        t2 == strip_accents(t1)
    IN  Join(Split(t2))

(***************************************************************************)
(* Exact rational arithmetic for the scores.  Denominators are positive.   *)
(* Comparison goes through quotient and remainder so that no product       *)
(* leaves the range of the integers.                                       *)
(***************************************************************************)
\* the greatest common divisor of a >= 0 and b >= 0
RECURSIVE Gcd(_, _)
Gcd(a, b) == IF b = 0 THEN a ELSE Let(a % b, LAMBDA r : Gcd(b, r))

\* the fraction n / d, d > 0; a fraction with a large denominator is put in
\* lowest terms, so that the products of the comparisons stay within the
\* integers of the model checker
Rat(n, d) ==
    IF d < 40000 THEN [ n |-> n, d |-> d ]
    ELSE Let(<< n, d >>, LAMBDA p :
         Let(Gcd(IF p[1] < 0 THEN 0 - p[1] ELSE p[1], p[2]), LAMBDA g :
             [ n |-> p[1] \div g, d |-> p[2] \div g ]))

RatLess(a, b) ==
    LET qa == a.n \div a.d
        qb == b.n \div b.d
    IN  \/ qa < qb
        \/ qa = qb /\ (a.n % a.d) * b.d < (b.n % b.d) * a.d

RatLeq(a, b) == ~RatLess(b, a)

RatEq(a, b) == ~RatLess(a, b) /\ ~RatLess(b, a)

RatMax(a, b) == IF RatLess(a, b) THEN b ELSE a

\* round(x, 2), in hundredths: the nearest multiple of 0.01, ties to even
Round2(r) ==
    LET x == 100 * r.n
        q == x \div r.d
        m == x % r.d
    IN  IF 2 * m > r.d \/ (2 * m = r.d /\ q % 2 = 1) THEN q + 1 ELSE q

Max(x, y) == IF x >= y THEN x ELSE y

(***************************************************************************)
(* rapidfuzz.fuzz.ratio and rapidfuzz.fuzz.token_set_ratio, the two        *)
(* library scorers search_explain calls.                                   *)
(***************************************************************************)
\* Row i of the longest-common-subsequence table of a and b, filled left to
\* right: entry j+1 is the LCS length of a[1..i] and b[1..j].
\* the cells lo..hi of a row of the LCS table, appended to the cells left of
\* them: cell by cell, a long range by halves
RECURSIVE LcsCellsRange(_, _, _, _, _, _)
LcsCellsRange(ai, b, prev, left, lo, hi) ==
    IF lo > hi THEN left
    ELSE IF hi - lo < 32
    THEN Let(LcsCellsRange(ai, b, prev, left, lo, hi - 1), LAMBDA cells :
             Append(cells, IF ai = b[hi] THEN prev[hi] + 1
                           ELSE Max(prev[hi + 1], cells[hi])))
    ELSE Let((lo + hi) \div 2, LAMBDA mid :
         Let(LcsCellsRange(ai, b, prev, left, lo, mid), LAMBDA cells :
             LcsCellsRange(ai, b, prev, cells, mid + 1, hi)))

\* the row of character ai, cells 0..j, from the row above it
LcsCells(ai, b, prev, j) == LcsCellsRange(ai, b, prev, << 0 >>, 1, j)

\* the rows lo..hi of the LCS table below the row prev; the last one is
\* returned
RECURSIVE LcsRows(_, _, _, _, _)
LcsRows(a, b, prev, lo, hi) ==
    IF lo > hi THEN prev
    ELSE IF hi - lo < 32
    THEN Let(LcsRows(a, b, prev, lo, hi - 1), LAMBDA above :
             LcsCells(a[hi], b, above, Len(b)))
    ELSE Let((lo + hi) \div 2, LAMBDA mid :
         Let(LcsRows(a, b, prev, lo, mid), LAMBDA row :
             LcsRows(a, b, row, mid + 1, hi)))

\* row i of the LCS table of a and b
LcsRow(a, b, i) == LcsRows(a, b, [ j \in 1..(Len(b) + 1) |-> 0 ], 1, i)

Lcs(a, b) == LcsRow(a, b, Len(a))[Len(b) + 1]

\* Indel distance: insertions and deletions turning a into b
IndelDistance(a, b) == Len(a) + Len(b) - 2 * Lcs(a, b)

\* 100 - 100 * dist / lensum, and 100 when both strings are empty
NormDistance(dist, lensum) ==
    IF lensum = 0 THEN Rat(100, 1) ELSE Rat(100 * lensum - 100 * dist, lensum)

\* fuzz.ratio(s1, s2)
fuzz_ratio(s1, s2) == NormDistance(IndelDistance(s1, s2), Len(s1) + Len(s2))

\* s < t as Python compares strings: by code point, a proper prefix first
RECURSIVE StrLess(_, _)
StrLess(s, t) ==
    IF t = << >> THEN FALSE
    ELSE IF s = << >> THEN TRUE
    ELSE IF Head(s) # Head(t) THEN Ord(Head(s)) < Ord(Head(t))
    ELSE StrLess(Tail(s), Tail(t))

\* sorted(tokens) for a set of strings
RECURSIVE SortedStrs(_)
SortedStrs(S) ==
    IF S = {} THEN << >>
    ELSE Let(CHOOSE x \in S : \A y \in S \ {x} : StrLess(x, y),
             LAMBDA m : << m >> \o SortedStrs(S \ {m}))

SeqToSet(seq) == { seq[i] : i \in 1..Len(seq) }

\* fuzz.token_set_ratio on the two token sets
TokenSetScore(tokens_a, tokens_b, diff_ab_joined, diff_ba_joined, sect_len) ==
    LET intersect == tokens_a \cap tokens_b
        diff_ab == tokens_a \ tokens_b
        diff_ba == tokens_b \ tokens_a
        ab_len == Len(diff_ab_joined)
        ba_len == Len(diff_ba_joined)
        sep == IF sect_len # 0 THEN 1 ELSE 0
        sect_ab_len == sect_len + sep + ab_len
        sect_ba_len == sect_len + sep + ba_len
        result == NormDistance(IndelDistance(diff_ab_joined, diff_ba_joined),
                               sect_ab_len + sect_ba_len)
        sect_ab_ratio == NormDistance(sep + ab_len, sect_len + sect_ab_len)
        sect_ba_ratio == NormDistance(sep + ba_len, sect_len + sect_ba_len)
    IN  IF tokens_a = {} \/ tokens_b = {} THEN Rat(0, 1)
        ELSE IF intersect # {} /\ (diff_ab = {} \/ diff_ba = {}) THEN Rat(100, 1)
        ELSE IF sect_len = 0 THEN result
        ELSE Let(result, LAMBDA r : RatMax(r, RatMax(sect_ab_ratio, sect_ba_ratio)))

\* fuzz.token_set_ratio(s1, s2)
fuzz_token_set_ratio(s1, s2) ==
    Let(SeqToSet(Split(s1)), LAMBDA tokens_a :
    Let(SeqToSet(Split(s2)), LAMBDA tokens_b :
    Let(Join(SortedStrs(tokens_a \ tokens_b)), LAMBDA diff_ab_joined :
    Let(Join(SortedStrs(tokens_b \ tokens_a)), LAMBDA diff_ba_joined :
    Let(Len(Join(SortedStrs(tokens_a \cap tokens_b))), LAMBDA sect_len :
        TokenSetScore(tokens_a, tokens_b, diff_ab_joined, diff_ba_joined, sect_len))))))

(***************************************************************************)
(* The n-gram inverted index (search_engine.py).                           *)
(***************************************************************************)
\* a slice bound as Python reads it: negative counts from the end, and both
\* ends are clamped to the text
SliceBound(x, len) ==
    IF x < 0 THEN (IF x + len < 0 THEN 0 ELSE x + len)
    ELSE IF x > len THEN len ELSE x

\* s[a:b] (0-based, b exclusive)
PySlice(s, a, b) ==
    LET lo == SliceBound(a, Len(s))
        hi == SliceBound(b, Len(s))
    IN  IF lo < hi THEN SubSeq(s, lo + 1, hi) ELSE << >>

\* project/code/matching.py char_ngrams: a list, duplicates kept; n is not
\* checked
char_ngrams(s, n) ==
    IF s = << >> THEN << >>
    ELSE IF Len(s) <= n THEN << s >>
    ELSE [ i \in 1..(Len(s) - n + 1) |-> PySlice(s, i - 1, i - 1 + n) ]

\* code/matching.py char_ngrams (first generation): a set of the n-grams of
\* the padded text, ValueError for n <= 0
legacy_char_ngrams(text, n) ==
    IF n <= 0 THEN [ raised |-> "ValueError", grams |-> {} ]
    ELSE LET t == << " " >> \o text \o << " " >>
         IN  [ raised |-> "none",
               grams |-> IF Len(t) < n THEN { t }
                         ELSE { PySlice(t, i - 1, i - 1 + n) : i \in 1..(Len(t) - n + 1) } ]

\* storage.py _build_records_from_csv in mode "original": one NameRecord per
\* source row, in row order, the key normalized at load time
RECURSIVE build_records(_)
build_records(rows) ==
    IF rows = << >> THEN << >>
    ELSE << [ id |-> Head(rows).id,
              full_name |-> Head(rows).full_name,
              normalized_name |-> normalize(Head(rows).full_name) ] >>
         \o build_records(Tail(rows))

\* One iteration of the loop of _build_index.  records_by_id is a dict: order
\* lists its keys in insertion order and rec holds the values.
IndexRecord(idx, rec, n) ==
    LET grams == SeqToSet(char_ngrams(rec.normalized_name, n))
        keys  == DOMAIN idx.inverted \cup grams
    IN  [ order |-> IF rec.id \in SeqToSet(idx.order) THEN idx.order
                    ELSE Append(idx.order, rec.id),
          rec |-> [ i \in DOMAIN idx.rec \cup {rec.id} |->
                      IF i = rec.id THEN rec ELSE idx.rec[i] ],
          inverted |-> [ g \in keys |->
                      (IF g \in DOMAIN idx.inverted THEN idx.inverted[g] ELSE {})
                      \cup (IF g \in grams THEN {rec.id} ELSE {}) ] ]

RECURSIVE IndexRecords(_, _, _)
IndexRecords(idx, recs, n) ==
    IF recs = << >> THEN idx
    ELSE Let(IndexRecord(idx, Head(recs), n), LAMBDA next : IndexRecords(next, Tail(recs), n))

EmptyIndex == [ order |-> << >>, rec |-> << >>, inverted |-> << >> ]

\* SearchEngine.__init__ and _build_index
SearchEngine(records, ngram_n, max_candidates) ==
    Let(IndexRecords(EmptyIndex, records, ngram_n), LAMBDA idx :
        [ ngram_n |-> ngram_n,
          max_candidates |-> max_candidates,
          order |-> idx.order,
          records_by_id |-> idx.rec,
          inverted |-> idx.inverted ])

\* sorted(ids)
RECURSIVE SortedAsc(_)
SortedAsc(S) ==
    IF S = {} THEN << >>
    ELSE Let(CHOOSE x \in S : \A y \in S : x <= y,
             LAMBDA m : << m >> \o SortedAsc(S \ {m}))

\* every order in which a set can be listed
Listings(S) ==
    { p \in [ 1..Cardinality(S) -> S ] :
        \A i, j \in 1..Cardinality(S) : i # j => p[i] # p[j] }

\* the union of the posting lists of the query's n-grams (lines 49-51)
PostingUnion(eng, query_norm) ==
    LET grams == SeqToSet(char_ngrams(query_norm, eng.ngram_n))
    IN  UNION { eng.inverted[g] : g \in grams \cap DOMAIN eng.inverted }

\* mutant of candidate_ids: no fallback to the whole record set
candidate_ids_NoFallback(eng, query_norm) ==
    LET ids == PostingUnion(eng, query_norm)
    IN  IF Cardinality(ids) > eng.max_candidates
        THEN { SubSeq(SortedAsc(ids), 1, eng.max_candidates) }
        ELSE Listings(ids)

\* mutant of candidate_ids: the truncation keeps the first ids of the set as
\* listed, without sorting them
candidate_ids_UnsortedTruncation(eng, query_norm) ==
    LET ids == PostingUnion(eng, query_norm)
    IN  IF ids = {} THEN { eng.order }
        ELSE IF Cardinality(ids) > eng.max_candidates
             THEN { SubSeq(p, 1, eng.max_candidates) : p \in Listings(ids) }
        ELSE Listings(ids)

\* mutant of candidate_ids: a union larger than max_candidates is sorted but
\* not truncated
candidate_ids_NoTruncation(eng, query_norm) ==
    LET ids == PostingUnion(eng, query_norm)
    IN  IF ids = {} THEN { eng.order }
        ELSE IF Cardinality(ids) > eng.max_candidates
             THEN { SortedAsc(ids) }
        ELSE Listings(ids)

\* SearchEngine.candidate_ids: the lists it can return.  list(set) has no
\* specified order, so the last case allows every listing.
candidate_ids(eng, query_norm) ==
    LET ids == PostingUnion(eng, query_norm)
    IN  IF ids = {} THEN { eng.order }
        ELSE IF Cardinality(ids) > eng.max_candidates
             THEN { SubSeq(SortedAsc(ids), 1, eng.max_candidates) }
        ELSE Listings(ids)

(***************************************************************************)
(* The ranker (search_engine.py search_explain).  w_token is given in      *)
(* hundredths (65 is 0.65) and threshold in score points; the displayed    *)
(* scores are in hundredths of a point (7212 is 72.12).                    *)
(***************************************************************************)
\* mutant of Combined: the two weights exchanged
Combined_WeightsSwapped(w_token, t, e) ==
    Rat((100 - w_token) * t.n * e.d + w_token * e.n * t.d, 100 * t.d * e.d)

\* w_token * token_score_raw + (1 - w_token) * edit_score_raw (line 78)
Combined(w_token, t, e) ==
    Rat(w_token * t.n * e.d + (100 - w_token) * e.n * t.d, 100 * t.d * e.d)

\* the dict of lines 82-93
ScoredDict(rec, token_score_raw, edit_score_raw, combined_raw, w_token) ==
    [ id |-> rec.id,
      name |-> rec.full_name,
      similarity_raw |-> combined_raw,
      token_raw |-> token_score_raw,
      edit_raw |-> edit_score_raw,
      similarity |-> Round2(combined_raw),
      token_score |-> Round2(token_score_raw),
      edit_score |-> Round2(edit_score_raw),
      w_token |-> w_token ]

\* the scores of one candidate (lines 74-78) and its dict
ScoredEntry(eng, rid, query_norm, w_token) ==
    Let(eng.records_by_id[rid], LAMBDA rec :
    Let(fuzz_token_set_ratio(query_norm, rec.normalized_name), LAMBDA token_score_raw :
    Let(fuzz_ratio(query_norm, rec.normalized_name), LAMBDA edit_score_raw :
        ScoredDict(rec, token_score_raw, edit_score_raw,
                   Combined(w_token, token_score_raw, edit_score_raw), w_token))))

\* mutant of PassesThreshold: the comparison turned around
PassesThreshold_Inverted(m, threshold) == RatLeq(m.similarity_raw, Rat(threshold, 1))

\* combined_raw >= threshold (line 80)
PassesThreshold(m, threshold) == RatLeq(Rat(threshold, 1), m.similarity_raw)

\* mutant of KeyLess: similarity compared ascending
KeyLess_SimilarityAscending(a, b) ==
    \/ RatLess(a.similarity_raw, b.similarity_raw)
    \/ /\ RatEq(a.similarity_raw, b.similarity_raw)
       /\ \/ RatLess(b.token_raw, a.token_raw)
          \/ /\ RatEq(a.token_raw, b.token_raw)
             /\ \/ RatLess(b.edit_raw, a.edit_raw)
                \/ /\ RatEq(a.edit_raw, b.edit_raw)
                   /\ a.id < b.id

\* mutant of KeyLess: the id left out of the key
KeyLess_NoId(a, b) ==
    \/ RatLess(b.similarity_raw, a.similarity_raw)
    \/ /\ RatEq(a.similarity_raw, b.similarity_raw)
       /\ \/ RatLess(b.token_raw, a.token_raw)
          \/ /\ RatEq(a.token_raw, b.token_raw)
             /\ RatLess(b.edit_raw, a.edit_raw)

\* the sort key of line 95, compared as Python compares tuples:
\* (-similarity_raw, -token_raw, -edit_raw, id) of a is less than that of b
KeyLess(a, b) ==
    \/ RatLess(b.similarity_raw, a.similarity_raw)
    \/ /\ RatEq(a.similarity_raw, b.similarity_raw)
       /\ \/ RatLess(b.token_raw, a.token_raw)
          \/ /\ RatEq(a.token_raw, b.token_raw)
             /\ \/ RatLess(b.edit_raw, a.edit_raw)
                \/ /\ RatEq(a.edit_raw, b.edit_raw)
                   /\ a.id < b.id

\* list.sort(key=...) is stable: an element goes after every element that is
\* not greater than it
RECURSIVE InsertSorted(_, _)
InsertSorted(sorted, m) ==
    IF sorted = << >> THEN << m >>
    ELSE IF KeyLess(m, Head(sorted)) THEN << m >> \o sorted
    ELSE << Head(sorted) >> \o InsertSorted(Tail(sorted), m)

RECURSIVE SortScored(_)
SortScored(scored) ==
    IF scored = << >> THEN << >>
    ELSE Let(SortScored(SubSeq(scored, 1, Len(scored) - 1)),
             LAMBDA sorted : InsertSorted(sorted, scored[Len(scored)]))

\* the pops of lines 104-107
PopRaw(m) ==
    [ id |-> m.id, name |-> m.name, similarity |-> m.similarity,
      token_score |-> m.token_score, edit_score |-> m.edit_score, w_token |-> m.w_token ]

\* scored[:limit], limit >= 1
Truncate(seq, limit) == SubSeq(seq, 1, IF limit < Len(seq) THEN limit ELSE Len(seq))

\* The scored list of lines 71-102, raw fields still present.
ScoredSorted(eng, cand_ids, query_norm, threshold, w_token) ==
    Let(SelectSeq([ i \in 1..Len(cand_ids) |->
                      ScoredEntry(eng, cand_ids[i], query_norm, w_token) ],
                  LAMBDA m : PassesThreshold(m, threshold)),
        LAMBDA scored : SortScored(scored))

\* SearchEngine.search_explain, cand_ids being the list candidate_ids returned
\* at line 68.  No statement of the method raises: raised is always "none".
search_explain(eng, cand_ids, query_norm, threshold, limit, w_token) ==
    Let(ScoredSorted(eng, cand_ids, query_norm, threshold, w_token), LAMBDA scored :
        [ matches |-> Truncate([ i \in 1..Len(scored) |-> PopRaw(scored[i]) ], limit),
          candidate_count |-> Len(cand_ids),
          raised |-> "none" ])

(***************************************************************************)
(* The LRU query cache (app.py LRUCache).  data is the OrderedDict: a      *)
(* sequence of [key, value] entries, the oldest first.  An optional value  *)
(* (a value or None) is a sequence of at most one element.                 *)
(***************************************************************************)
LRUCache(maxsize) == [ maxsize |-> maxsize, data |-> << >> ]

CachedKeys(c) == { c.data[i].key : i \in 1..Len(c.data) }

\* OrderedDict.get(key)
DictGet(data, key) ==
    LET hits == SelectSeq(data, LAMBDA e : e.key = key)
    IN  IF hits = << >> THEN << >> ELSE << hits[1].value >>

\* OrderedDict.move_to_end(key), the key being present
MoveToEnd(data, key) ==
    SelectSeq(data, LAMBDA e : e.key # key) \o SelectSeq(data, LAMBDA e : e.key = key)

\* OrderedDict.__setitem__: a present key keeps its position
DictSet(data, key, value) ==
    IF \E i \in 1..Len(data) : data[i].key = key
    THEN [ i \in 1..Len(data) |->
             IF data[i].key = key THEN [ key |-> key, value |-> value ] ELSE data[i] ]
    ELSE Append(data, [ key |-> key, value |-> value ])

\* mutant of LRUCache_get: a hit does not promote the entry
LRUCache_get_NoPromote(c, key) == [ value |-> DictGet(c.data, key), cache |-> c ]

\* LRUCache.get: the value returned and the cache afterwards
LRUCache_get(c, key) ==
    LET v == DictGet(c.data, key)
    IN  IF v = << >> THEN [ value |-> << >>, cache |-> c ]
        ELSE [ value |-> v, cache |-> [ c EXCEPT !.data = MoveToEnd(c.data, key) ] ]

\* LRUCache.set
LRUCache_set(c, key, value) ==
    LET d1 == MoveToEnd(DictSet(c.data, key, value), key)
        d2 == IF Len(d1) > c.maxsize THEN Tail(d1) ELSE d1
    IN  [ c EXCEPT !.data = d2 ]

(***************************************************************************)
(* The metrics collector (metrics.py).                                     *)
(***************************************************************************)
\* the maxlen of the two deques of RollingStats
DEQUE_MAXLEN == 5000

\* deque.append on a deque with a maxlen
DequeAppend(d, x, maxlen) ==
    IF Len(d) >= maxlen THEN Append(Tail(d), x) ELSE Append(d, x)

\* Metrics(): top_queries is a dict, a sequence of [query, count] in insertion order
NewMetrics ==
    [ total_requests |-> 0,
      total_cache_hits |-> 0,
      top_queries |-> << >>,
      lat_ms |-> << >>,
      candidates |-> << >>,
      tie_groups_total |-> 0,
      tie_resolved_by_token |-> 0,
      tie_resolved_by_edit |-> 0,
      tie_resolved_by_id |-> 0 ]

\* self.top_queries.get(query_norm, 0)
QueryCount(top, query_norm) ==
    LET hits == SelectSeq(top, LAMBDA e : e.query = query_norm)
    IN  IF hits = << >> THEN 0 ELSE hits[1].count

\* self.top_queries[query_norm] = count
SetQueryCount(top, query_norm, count) ==
    IF \E i \in 1..Len(top) : top[i].query = query_norm
    THEN [ i \in 1..Len(top) |->
             IF top[i].query = query_norm THEN [ query |-> query_norm, count |-> count ]
             ELSE top[i] ]
    ELSE Append(top, [ query |-> query_norm, count |-> count ])

\* Metrics.inc_request
inc_request(m, query_norm) ==
    [ m EXCEPT !.total_requests = @ + 1,
               !.top_queries = SetQueryCount(@, query_norm, QueryCount(@, query_norm) + 1) ]

\* mutant of inc_cache_hit: the hit is not counted
inc_cache_hit_NotCounted(m) == m

\* Metrics.inc_cache_hit
inc_cache_hit(m) == [ m EXCEPT !.total_cache_hits = @ + 1 ]

\* Metrics.add_search_stats and RollingStats.add
add_search_stats(m, latency_ms, candidate_count) ==
    [ m EXCEPT !.lat_ms = DequeAppend(@, latency_ms, DEQUE_MAXLEN),
               !.candidates = DequeAppend(@, candidate_count, DEQUE_MAXLEN) ]

\* mutant of add_tie_stats: the by_id total is not updated
add_tie_stats_NoById(m, stats) ==
    [ m EXCEPT !.tie_groups_total = @ + stats[1],
               !.tie_resolved_by_token = @ + stats[2],
               !.tie_resolved_by_edit = @ + stats[3] ]

\* Metrics.add_tie_stats
add_tie_stats(m, stats) ==
    [ m EXCEPT !.tie_groups_total = @ + stats[1],
               !.tie_resolved_by_token = @ + stats[2],
               !.tie_resolved_by_edit = @ + stats[3],
               !.tie_resolved_by_id = @ + stats[4] ]

(***************************************************************************)
(* The request handler (app.py).                                           *)
(***************************************************************************)
\* the end j of the run of equal similarity that starts at i (lines 108-111)
RECURSIVE RunEnd(_, _, _)
RunEnd(matches, i, j) ==
    IF j <= Len(matches) /\ matches[j].similarity = matches[i].similarity
    THEN RunEnd(matches, i, j + 1)
    ELSE j

\* the loop of compute_tie_break_stats from position i on, acc being
\* (groups_total, by_token, by_edit, by_id)
RECURSIVE TieLoop(_, _, _)
TieLoop(matches, i, acc) ==
    IF i > Len(matches) THEN acc
    ELSE LET j == RunEnd(matches, i, i + 1)
             token_vals == { matches[k].token_score : k \in i..(j - 1) }
             edit_vals  == { matches[k].edit_score : k \in i..(j - 1) }
             acc2 == IF j - i > 1
                     THEN IF Cardinality(token_vals) > 1
                          THEN << acc[1] + 1, acc[2] + 1, acc[3], acc[4] >>
                          ELSE IF Cardinality(edit_vals) > 1
                          THEN << acc[1] + 1, acc[2], acc[3] + 1, acc[4] >>
                          ELSE << acc[1] + 1, acc[2], acc[3], acc[4] + 1 >>
                     ELSE acc
         IN  Let(<< j, acc2 >>, LAMBDA next : TieLoop(matches, next[1], next[2]))

\* compute_tie_break_stats
compute_tie_break_stats(matches) == TieLoop(matches, 1, << 0, 0, 0, 0 >>)

\* one entry of results_list (lines 193-209)
ResultEntry(m, explain) ==
    IF explain
    THEN [ id |-> m.id, name |-> m.name, similarity |-> m.similarity,
           token_score |-> m.token_score, edit_score |-> m.edit_score,
           w_token |-> m.w_token ]
    ELSE [ id |-> m.id, name |-> m.name, similarity |-> m.similarity ]

\* one value of results_by_id (lines 213-229)
ByIdEntry(r, explain) ==
    IF explain
    THEN [ name |-> r.name, similarity |-> r.similarity, token_score |-> r.token_score,
           edit_score |-> r.edit_score, w_token |-> r.w_token ]
    ELSE [ name |-> r.name, similarity |-> r.similarity ]

\* the payload of lines 193-229; results_by_id is optional
Payload(matches, explain, include_by_id) ==
    LET results_list == [ i \in 1..Len(matches) |-> ResultEntry(matches[i], explain) ]
        ids == { results_list[i].id : i \in 1..Len(results_list) }
        by_id == [ rid \in ids |->
                     ByIdEntry(CHOOSE r \in SeqToSet(results_list) : r.id = rid, explain) ]
    IN  [ results |-> results_list,
          results_by_id |-> IF include_by_id THEN << by_id >> ELSE << >> ]

\* mutant of CacheKey: explain left out of the key
CacheKey_NoExplain(q_norm, threshold, limit, w_token, explain, include_by_id) ==
    << q_norm, threshold, limit, w_token, include_by_id >>

\* the cache key of line 174
CacheKey(q_norm, threshold, limit, w_token, explain, include_by_id) ==
    << q_norm, threshold, limit, w_token, explain, include_by_id >>

\* SearchConfig.ngram_n, and the default of the NGRAM_N environment variable
NGRAM_N == 3

\* the cache and the metrics of a service that handles no request
ServiceIdle == cache = LRUCache(1) /\ metrics = NewMetrics /\ log = << >>

(***************************************************************************)
(* Normalizer specification: the input is any text of at most MaxPieces    *)
(* pieces, and each step normalizes the previous result again.             *)
(***************************************************************************)
MaxPieces == 4

Pieces ==
    { <<"D","r","."," ">>, <<"s","r",".">>, <<"d","r">>, <<" ">>, <<",">>,
      <<"j">>, <<"E_acute">>, <<"\t">> }

RECURSIVE TextsOf(_)
TextsOf(k) ==
    IF k = 0 THEN { << >> }
    ELSE Let(TextsOf(k - 1),
             LAMBDA shorter : shorter \cup { t \o p : t \in shorter, p \in Pieces })

RawTexts == TextsOf(MaxPieces)

Last(seq) == seq[Len(seq)]

InitNormalize ==
    /\ n_in \in RawTexts \cup { None }
    /\ HandlersIdle
    /\ RepoIdle
    /\ n_out = << >>
    /\ l_out = << >>
    /\ engine = SearchEngine(<< >>, NGRAM_N, 1)
    /\ calls = << >>
    /\ ServiceIdle
    /\ HistoryIdle

Normalize ==
    /\ Len(n_out) < 2
    /\ n_out' = Append(n_out, normalize(IF n_out = << >> THEN n_in ELSE Last(n_out)))
    /\ UNCHANGED <<n_in, l_out, engine, calls, service_vars, history_vars, handler_vars, repo>>

LegacyNormalize ==
    /\ Len(l_out) < 2
    /\ l_out' = Append(l_out, legacy_normalize(IF l_out = << >> THEN n_in ELSE Last(l_out)))
    /\ UNCHANGED <<n_in, n_out, engine, calls, service_vars, history_vars, handler_vars, repo>>

NextNormalize == Normalize \/ LegacyNormalize

SpecNormalize == InitNormalize /\ [][NextNormalize]_vars

\* C4: normalize(normalize(x)) = normalize(x) for every input x
C4_Idempotent == Len(n_out) = 2 => n_out[2] = n_out[1]

(***************************************************************************)
(* Ranker specification: an engine built over one of the source tables,    *)
(* then two calls of search_explain that agree on query, limit and         *)
(* w_token.                                                                *)
(***************************************************************************)
MaxCandidatesBound == 2

RowsA ==
    << [ id |-> 5, full_name |-> <<"J","o"," ","J","o","s","e">> ],
       [ id |-> 3, full_name |-> <<"a"," ","a","n","a">> ],
       [ id |-> 9, full_name |-> <<"a","n","a">> ],
       [ id |-> 1, full_name |-> <<"A","n","a">> ],
       [ id |-> 7, full_name |-> <<"A","n","a"," ","J","o","s","e">> ] >>

RowsB ==
    << [ id |-> 2, full_name |-> <<"j","o"," ","j","o","s","e">> ],
       [ id |-> 1, full_name |-> <<"a"," ","a","n","a">> ] >>

RowsC ==
    << [ id |-> 4, full_name |-> <<"7">> ],
       [ id |-> 6, full_name |-> <<"A","n","a">> ],
       [ id |-> 8, full_name |-> <<"D","r","."," ","A","n","a">> ] >>

Reverse(seq) == [ i \in 1..Len(seq) |-> seq[Len(seq) + 1 - i] ]

SourceTables == { RowsA, Reverse(RowsA), RowsB, Reverse(RowsB), RowsC }

Queries ==
    { <<"a","n","a"," ","j","o","s","e">>, <<"a","n","a">>, <<"z","z","z">>, << >> }

Thresholds == { 0, 70, 100 }

Limits == { 1, 3 }

WTokens == { -10, 65, 90, 150 }

InitSearch ==
    /\ NormalizerIdle
    /\ HandlersIdle
    /\ RepoIdle
    /\ ServiceIdle
    /\ HistoryIdle
    /\ \E rows \in SourceTables, mc \in 1..MaxCandidatesBound :
         engine = SearchEngine(build_records(rows), NGRAM_N, mc)
    /\ calls = << >>

Search(query_norm, threshold, limit, w_token) ==
    /\ Len(calls) < 2
    /\ calls # << >> =>
         /\ query_norm = calls[1].query_norm
         /\ limit = calls[1].limit
         /\ w_token = calls[1].w_token
    /\ \E cand_ids \in candidate_ids(engine, query_norm) :
         calls' = Append(calls,
                    [ query_norm |-> query_norm, threshold |-> threshold,
                      limit |-> limit, w_token |-> w_token, cand_ids |-> cand_ids,
                      out |-> search_explain(engine, cand_ids, query_norm,
                                             threshold, limit, w_token) ])
    /\ UNCHANGED <<normalizer_vars, engine, service_vars, history_vars, handler_vars, repo>>

NextSearch ==
    \E q \in Queries, t \in Thresholds, l \in Limits, w \in WTokens : Search(q, t, l, w)

SpecSearch == InitSearch /\ [][NextSearch]_vars

Matches(i) == calls[i].out.matches

\* the unrounded scores of a returned entry, recomputed from the record it names
RawOf(i, m) == ScoredEntry(engine, m.id, calls[i].query_norm, calls[i].w_token)

\* (x1, x2, x3, x4) >= (y1, y2, y3, y4) lexicographically, on integers
LexGeq4(x, y) ==
    \/ x[1] > y[1]
    \/ x[1] = y[1] /\ x[2] > y[2]
    \/ x[1] = y[1] /\ x[2] = y[2] /\ x[3] > y[3]
    \/ x[1] = y[1] /\ x[2] = y[2] /\ x[3] = y[3] /\ x[4] >= y[4]

\* the same order on the unrounded scores of two entries
RawLexGeq(x, y) ==
    \/ RatLess(y.similarity_raw, x.similarity_raw)
    \/ /\ RatEq(x.similarity_raw, y.similarity_raw)
       /\ RatLess(y.token_raw, x.token_raw)
    \/ /\ RatEq(x.similarity_raw, y.similarity_raw)
       /\ RatEq(x.token_raw, y.token_raw)
       /\ RatLess(y.edit_raw, x.edit_raw)
    \/ /\ RatEq(x.similarity_raw, y.similarity_raw)
       /\ RatEq(x.token_raw, y.token_raw)
       /\ RatEq(x.edit_raw, y.edit_raw)
       /\ -x.id >= -y.id

DisplayedKey(m) == << m.similarity, m.token_score, m.edit_score, -m.id >>

\* C1 as stated: in every returned list, an entry before another has a
\* lexicographically greater-or-equal tuple of the displayed (rounded)
\* (similarity, token_score, edit_score, -id)
C1_DisplayedOrder ==
    \A i \in 1..Len(calls) : \A a, b \in 1..Len(Matches(i)) :
        a < b => LexGeq4(DisplayedKey(Matches(i)[a]), DisplayedKey(Matches(i)[b]))

\* C1 amended: in every returned list, an entry before another has a
\* lexicographically greater-or-equal tuple of the unrounded (similarity,
\* token_score, edit_score, -id), and its displayed similarity is not smaller
C1_RawOrder ==
    \A i \in 1..Len(calls) : \A a, b \in 1..Len(Matches(i)) :
        a < b =>
            LET ma == Matches(i)[a]
                mb == Matches(i)[b]
            IN  /\ RawLexGeq(RawOf(i, ma), RawOf(i, mb))
                /\ ma.similarity >= mb.similarity

\* a list whose unrounded similarities differ and round to the same value,
\* with the displayed token scores in the opposite order
C1_Witness ==
    \E i \in 1..Len(calls) : \E a, b \in 1..Len(Matches(i)) :
        /\ a < b
        /\ Matches(i)[a].similarity = Matches(i)[b].similarity
        /\ RatLess(RawOf(i, Matches(i)[b]).similarity_raw, RawOf(i, Matches(i)[a]).similarity_raw)
        /\ Matches(i)[a].token_score < Matches(i)[b].token_score

AllIds == DOMAIN engine.records_by_id

Smallest(U, k) == { x \in U : Cardinality({ y \in U : y < x }) < k }

\* C6: when the union of the posting lists holds more than max_candidates ids,
\* candidate_ids returns exactly the max_candidates smallest of them
C6_AscendingTruncation ==
    \A i \in 1..Len(calls) :
        LET U == PostingUnion(engine, calls[i].query_norm)
        IN  Cardinality(U) > engine.max_candidates =>
                /\ Len(calls[i].cand_ids) = engine.max_candidates
                /\ SeqToSet(calls[i].cand_ids) = Smallest(U, engine.max_candidates)

\* ids inserted in the order 5,3,9,1,7, all five matching, max_candidates = 2
C6_Witness ==
    \E i \in 1..Len(calls) :
        /\ engine.order = << 5, 3, 9, 1, 7 >>
        /\ engine.max_candidates = 2
        /\ PostingUnion(engine, calls[i].query_norm) = { 1, 3, 5, 7, 9 }
        /\ SeqToSet(calls[i].cand_ids) = { 1, 3 }

\* C7: a search with w_token outside [0,1] fails with an invalid-argument
\* error and returns no result list
C7_RejectsWTokenOutOfRange ==
    \A i \in 1..Len(calls) :
        calls[i].w_token \notin 0..100 =>
            /\ calls[i].out.raised # "none"
            /\ calls[i].out.matches = << >>

\* C8: for the same query, limit and w_token, a call with a higher threshold
\* returns at most as many results
C8_ThresholdMonotone ==
    \A i, j \in 1..Len(calls) :
        ( /\ calls[i].query_norm = calls[j].query_norm
          /\ calls[i].limit = calls[j].limit
          /\ calls[i].w_token = calls[j].w_token
          /\ calls[i].threshold <= calls[j].threshold )
        => Len(Matches(j)) <= Len(Matches(i))

\* two results at the lower threshold, one at the higher
C8_Witness ==
    /\ Len(calls) = 2
    /\ calls[1].threshold < calls[2].threshold
    /\ Len(Matches(1)) = 2
    /\ Len(Matches(2)) = 1

SameArguments(i, j) ==
    /\ calls[i].query_norm = calls[j].query_norm
    /\ calls[i].threshold = calls[j].threshold
    /\ calls[i].limit = calls[j].limit
    /\ calls[i].w_token = calls[j].w_token

\* C9: two calls with identical arguments return the same ordered list and
\* the same candidate count, whatever order the candidate ids were listed in
C9_Deterministic ==
    \A i, j \in 1..Len(calls) :
        SameArguments(i, j) =>
            /\ Matches(i) = Matches(j)
            /\ calls[i].out.candidate_count = calls[j].out.candidate_count

\* identical arguments, the candidates listed in different orders, and two
\* results that only the id separates
C9_Witness ==
    /\ Len(calls) = 2
    /\ SameArguments(1, 2)
    /\ calls[1].cand_ids # calls[2].cand_ids
    /\ Len(Matches(1)) = 2
    /\ DisplayedKey(Matches(1)[1])[1] = DisplayedKey(Matches(1)[2])[1]
    /\ Matches(1)[1].token_score = Matches(1)[2].token_score
    /\ Matches(1)[1].edit_score = Matches(1)[2].edit_score

(***************************************************************************)
(* Service specification: requests handled one after the other by          *)
(* run_match, over an engine built at startup and a cache of capacity      *)
(* 1..MaxCacheSize.                                                        *)
(***************************************************************************)
MaxCacheSize == 2

MaxRequests == 3

BaseRequest ==
    [ name |-> <<"A","n","a">>, threshold |-> 70, limit |-> 3, w_token |-> 65,
      explain |-> FALSE, include_by_id |-> TRUE ]

\* the base request, and requests that differ from it in one parameter; the
\* name "Dr. ana" normalizes to the query of the base request
Requests ==
    { BaseRequest,
      [ BaseRequest EXCEPT !.name = <<"D","r","."," ","a","n","a">> ],
      [ BaseRequest EXCEPT !.name = <<"A","n","a"," ","J","o","s","e">> ],
      [ BaseRequest EXCEPT !.threshold = 100 ],
      [ BaseRequest EXCEPT !.limit = 1 ],
      [ BaseRequest EXCEPT !.w_token = 90 ],
      [ BaseRequest EXCEPT !.explain = TRUE ],
      [ BaseRequest EXCEPT !.include_by_id = FALSE ] }

\* what time.perf_counter() can measure for one search, in milliseconds
Latencies == { 2, 7 }

Init ==
    /\ NormalizerIdle
    /\ HandlersIdle
    /\ RepoIdle
    /\ HistoryIdle
    /\ engine = SearchEngine(build_records(RowsA), NGRAM_N, MaxCandidatesBound)
    /\ calls = << >>
    /\ \E c \in 1..MaxCacheSize : cache = LRUCache(c)
    /\ metrics = NewMetrics
    /\ log = << >>

\* the log keeps the last two calls
Logged(entry) == Append(IF Len(log) = 2 THEN Tail(log) ELSE log, entry)

\* run_match, the whole handler
RunMatch(req) ==
    /\ metrics.total_requests < MaxRequests
    /\ \E q_norm \in { normalize(req.name) } :
         LET m1  == inc_request(metrics, q_norm)
             key == CacheKey(q_norm, req.threshold, req.limit, req.w_token,
                             req.explain, req.include_by_id)
             cached == LRUCache_get(cache, key)
             seen == [ request |-> req,
                       keys_before |-> CachedKeys(cache),
                       hits_before |-> metrics.total_cache_hits,
                       searches_before |-> Len(metrics.lat_ms) ]
         IN  IF cached.value # << >>
             THEN /\ metrics' = inc_cache_hit(m1)
                  /\ cache' = cached.cache
                  /\ log' = Logged(seen @@
                                   [ response |-> cached.value[1],
                                     matches |-> << >>,
                                     tie_stats |-> << >>,
                                     hits_after |-> metrics'.total_cache_hits,
                                     searches_after |-> Len(metrics'.lat_ms) ])
             ELSE \E cand_ids \in candidate_ids(engine, q_norm) :
                  \E out \in { search_explain(engine, cand_ids, q_norm, req.threshold,
                                               req.limit, req.w_token) } :
                  \E payload \in { Payload(out.matches, req.explain, req.include_by_id) } :
                  \E latency_ms \in Latencies :
                    /\ metrics' = add_tie_stats(
                                      add_search_stats(m1, latency_ms, out.candidate_count),
                                      compute_tie_break_stats(out.matches))
                    /\ cache' = LRUCache_set(cached.cache, key, payload)
                    /\ log' = Logged(seen @@
                                     [ response |-> payload,
                                       matches |-> out.matches,
                                       tie_stats |-> compute_tie_break_stats(out.matches),
                                       hits_after |-> metrics'.total_cache_hits,
                                       searches_after |-> Len(metrics'.lat_ms) ])
    /\ UNCHANGED <<normalizer_vars, engine, calls, history_vars, handler_vars, repo>>

Next == \E req \in Requests : RunMatch(req)

Spec == Init /\ [][Next]_vars

\* the six parameters the cache is keyed by, for a logged call
KeyOf(e) ==
    << normalize(e.request.name), e.request.threshold, e.request.limit,
       e.request.w_token, e.request.explain, e.request.include_by_id >>

\* C2: with a cache of capacity >= 1, the second of two consecutive calls with
\* the same six parameters returns the same response and adds exactly one
\* cache hit; a call whose six parameters equal no cached key runs the search
\* and adds no cache hit
C2_CacheCorrect ==
    /\ ( Len(log) = 2 /\ KeyOf(log[1]) = KeyOf(log[2]) ) =>
           /\ log[2].response = log[1].response
           /\ log[2].hits_after = log[2].hits_before + 1
           /\ log[2].searches_after = log[2].searches_before
    /\ \A i \in 1..Len(log) :
           KeyOf(log[i]) \notin log[i].keys_before =>
               /\ log[i].hits_after = log[i].hits_before
               /\ log[i].searches_after = log[i].searches_before + 1

\* the number of parameters in which two keys differ
KeyDistance(k1, k2) == Cardinality({ i \in 1..6 : k1[i] # k2[i] })

\* a call that missed because one parameter differed from a cached key,
\* followed by the same call again, answered from the cache
C2_Witness ==
    /\ Len(log) = 2
    /\ KeyOf(log[1]) = KeyOf(log[2])
    /\ log[1].keys_before # {}
    /\ \A k \in log[1].keys_before : KeyDistance(k, KeyOf(log[1])) = 1
    /\ log[1].searches_after = log[1].searches_before + 1
    /\ log[2].hits_after = log[2].hits_before + 1
    /\ log[2].response.results # << >>

(***************************************************************************)
(* Cache specification: any sequence of at most MaxOps get and set calls   *)
(* on a cache of capacity 1..MaxCacheSize.  The history variables time     *)
(* every access.                                                           *)
(***************************************************************************)
MaxOps == 4

LruKeys == { "k1", "k2", "k3", "k4" }

LruValues == { "v1", "v2" }

InitLRU ==
    /\ NormalizerIdle
    /\ HandlersIdle
    /\ RepoIdle
    /\ engine = SearchEngine(<< >>, NGRAM_N, 1)
    /\ calls = << >>
    /\ metrics = NewMetrics
    /\ log = << >>
    /\ \E c \in 1..MaxCacheSize : cache = LRUCache(c)
    /\ tick = 0
    /\ last_access = [ k \in LruKeys |-> 0 ]
    /\ lru_op = [ op |-> "none" ]

CacheGet(key) ==
    /\ tick < MaxOps
    /\ LET r == LRUCache_get(cache, key)
       IN  /\ cache' = r.cache
           /\ tick' = tick + 1
           /\ last_access' = IF r.value # << >>
                             THEN [ last_access EXCEPT ![key] = tick + 1 ]
                             ELSE last_access
           /\ lru_op' = [ op |-> "get", key |-> key,
                          keys_before |-> CachedKeys(cache),
                          keys_after |-> CachedKeys(r.cache) ]
    /\ UNCHANGED <<normalizer_vars, engine, calls, metrics, log, handler_vars, repo>>

CacheSet(key, value) ==
    /\ tick < MaxOps
    /\ LET c2 == LRUCache_set(cache, key, value)
       IN  /\ cache' = c2
           /\ tick' = tick + 1
           /\ last_access' = [ last_access EXCEPT ![key] = tick + 1 ]
           /\ lru_op' = [ op |-> "set", key |-> key,
                          keys_before |-> CachedKeys(cache),
                          keys_after |-> CachedKeys(c2) ]
    /\ UNCHANGED <<normalizer_vars, engine, calls, metrics, log, handler_vars, repo>>

NextLRU ==
    \/ \E k \in LruKeys : CacheGet(k)
    \/ \E k \in LruKeys, v \in LruValues : CacheSet(k, v)

SpecLRU == InitLRU /\ [][NextLRU]_vars

\* the keys of S accessed least recently, by the history
Oldest(S) == { k \in S : \A k2 \in S : last_access[k] <= last_access[k2] }

\* C3: the cache holds at most maxsize entries; a set that would exceed
\* maxsize removes exactly the key present whose last access is the oldest,
\* and any other call removes nothing
C3_LruEviction ==
    /\ Len(cache.data) <= cache.maxsize
    /\ Cardinality(CachedKeys(cache)) = Len(cache.data)
    /\ lru_op.op = "get" => lru_op.keys_after = lru_op.keys_before
    /\ lru_op.op = "set" =>
           LET present == lru_op.keys_before \cup { lru_op.key }
           IN  IF Cardinality(present) > cache.maxsize
               THEN /\ present \ lru_op.keys_after = Oldest(present)
                    /\ Cardinality(Oldest(present)) = 1
                    /\ lru_op.keys_after \subseteq present
               ELSE lru_op.keys_after = present

\* a full cache of capacity 2 whose older key was promoted by a get, then a
\* set of a third key: the key that was not promoted is the one evicted
C3_Witness ==
    /\ cache.maxsize = 2
    /\ tick = 4
    /\ lru_op.op = "set"
    /\ lru_op.keys_before = { "k1", "k2" }
    /\ lru_op.key = "k3"
    /\ last_access["k1"] = 3
    /\ last_access["k2"] = 2
    /\ lru_op.keys_after = { "k1", "k3" }

(***************************************************************************)
(* Concurrent service specification.  match_post and match_get are plain   *)
(* functions, which the framework runs on a pool of worker threads, and    *)
(* run_match takes no lock: between two of its reads and writes of the     *)
(* shared cache and metrics another thread may run.  A step is one read or *)
(* one write of shared state; x += d is a read followed by a write.        *)
(***************************************************************************)
MaxHandlers == 2

MaxCalls == 3

Handlers == 1..MaxHandlers

IdleFrame == [ pc |-> "idle" ]

ConcRequests ==
    { BaseRequest, [ BaseRequest EXCEPT !.name = <<"A","n","a"," ","J","o","s","e">> ] }

\* the locals of a run_match call that has just normalized its input (line 171)
Frame(req) ==
    [ pc |-> "inc_request_read",
      q_norm |-> normalize(req.name),
      key |-> CacheKey(normalize(req.name), req.threshold, req.limit, req.w_token,
                       req.explain, req.include_by_id),
      req |-> req,
      tmp |-> 0,
      cached |-> << >>,
      candidate_count |-> 0,
      latency_ms |-> 0,
      stats |-> << 0, 0, 0, 0 >>,
      k |-> 1,
      payload |-> << >> ]

\* the four counters add_tie_stats updates, in the order of its statements
TieFields ==
    << "tie_groups_total", "tie_resolved_by_token", "tie_resolved_by_edit",
       "tie_resolved_by_id" >>

InitConc ==
    /\ NormalizerIdle
    /\ HistoryIdle
    /\ engine = SearchEngine(build_records(RowsA), NGRAM_N, MaxCandidatesBound)
    /\ calls = << >>
    /\ \E c \in 1..MaxCacheSize : cache = LRUCache(c)
    /\ metrics = NewMetrics
    /\ log = << >>
    /\ handlers = [ t \in Handlers |-> IdleFrame ]
    /\ tally = NoCalls
    /\ RepoIdle

At(t, label) == handlers[t].pc = label

Goto(t, label) == handlers' = [ handlers EXCEPT ![t].pc = label ]

\* the call of thread t ends: how is "from_cache", "computed", "get_failed" (a
\* KeyError out of LRUCache.get) or "set_failed" (a KeyError out of LRUCache.set)
Finish(t, how) ==
    /\ handlers' = [ handlers EXCEPT ![t] = IdleFrame ]
    /\ tally' = [ tally EXCEPT ![how] = @ + 1 ]

rest_vars == <<normalizer_vars, engine, calls, log, history_vars, repo>>

\* a worker thread enters run_match (lines 160-171)
BeginRunMatch(t, req) ==
    /\ At(t, "idle")
    /\ tally.started < MaxCalls
    /\ handlers' = [ handlers EXCEPT ![t] = Frame(req) ]
    /\ tally' = [ tally EXCEPT !.started = @ + 1 ]
    /\ UNCHANGED <<cache, metrics, rest_vars>>

\* inc_request: the read of self.total_requests += 1
IncRequestRead(t) ==
    /\ At(t, "inc_request_read")
    /\ handlers' = [ handlers EXCEPT ![t].tmp = metrics.total_requests,
                                     ![t].pc = "inc_request_write" ]
    /\ UNCHANGED <<cache, metrics, tally, rest_vars>>

\* inc_request: the write of self.total_requests += 1
IncRequestWrite(t) ==
    /\ At(t, "inc_request_write")
    /\ metrics' = [ metrics EXCEPT !.total_requests = handlers[t].tmp + 1 ]
    /\ Goto(t, "top_queries_read")
    /\ UNCHANGED <<cache, tally, rest_vars>>

\* inc_request: self.top_queries.get(query_norm, 0)
TopQueriesRead(t) ==
    /\ At(t, "top_queries_read")
    /\ handlers' = [ handlers EXCEPT
                       ![t].tmp = QueryCount(metrics.top_queries, handlers[t].q_norm),
                       ![t].pc = "top_queries_write" ]
    /\ UNCHANGED <<cache, metrics, tally, rest_vars>>

\* inc_request: self.top_queries[query_norm] = ... + 1
TopQueriesWrite(t) ==
    /\ At(t, "top_queries_write")
    /\ metrics' = [ metrics EXCEPT
                      !.top_queries = SetQueryCount(@, handlers[t].q_norm, handlers[t].tmp + 1) ]
    /\ Goto(t, "cache_lookup")
    /\ UNCHANGED <<cache, tally, rest_vars>>

\* LRUCache.get: v = self._data.get(key), and the return of None
CacheLookup(t) ==
    /\ At(t, "cache_lookup")
    /\ LET v == DictGet(cache.data, handlers[t].key)
       IN  handlers' = [ handlers EXCEPT
                           ![t].cached = v,
                           ![t].pc = IF v = << >> THEN "search" ELSE "cache_promote" ]
    /\ UNCHANGED <<cache, metrics, tally, rest_vars>>

\* LRUCache.get: self._data.move_to_end(key), a KeyError when the key is gone
CachePromote(t) ==
    /\ At(t, "cache_promote")
    /\ IF handlers[t].key \in CachedKeys(cache)
       THEN /\ cache' = [ cache EXCEPT !.data = MoveToEnd(@, handlers[t].key) ]
            /\ Goto(t, "cache_hit_read")
            /\ UNCHANGED tally
       ELSE /\ Finish(t, "get_failed")
            /\ UNCHANGED cache
    /\ UNCHANGED <<metrics, rest_vars>>

\* inc_cache_hit: the read of self.total_cache_hits += 1
CacheHitRead(t) ==
    /\ At(t, "cache_hit_read")
    /\ handlers' = [ handlers EXCEPT ![t].tmp = metrics.total_cache_hits,
                                     ![t].pc = "cache_hit_write" ]
    /\ UNCHANGED <<cache, metrics, tally, rest_vars>>

\* inc_cache_hit: the write, then return cached (line 178)
CacheHitWrite(t) ==
    /\ At(t, "cache_hit_write")
    /\ metrics' = [ metrics EXCEPT !.total_cache_hits = handlers[t].tmp + 1 ]
    /\ Finish(t, "from_cache")
    /\ UNCHANGED <<cache, rest_vars>>

\* the search and the thread-local work of lines 180-229: the latency, the
\* tie statistics and the payload
SearchStep(t) ==
    /\ At(t, "search")
    /\ \E cand_ids \in candidate_ids(engine, handlers[t].q_norm) :
       \E out \in { search_explain(engine, cand_ids, handlers[t].q_norm,
                                   handlers[t].req.threshold, handlers[t].req.limit,
                                   handlers[t].req.w_token) } :
       \E latency_ms \in Latencies :
         handlers' = [ handlers EXCEPT
                         ![t].candidate_count = out.candidate_count,
                         ![t].latency_ms = latency_ms,
                         ![t].stats = compute_tie_break_stats(out.matches),
                         ![t].payload = Payload(out.matches, handlers[t].req.explain,
                                                handlers[t].req.include_by_id),
                         ![t].pc = "add_latency" ]
    /\ UNCHANGED <<cache, metrics, tally, rest_vars>>

\* RollingStats.add: self.lat_ms.append(latency_ms)
AddLatency(t) ==
    /\ At(t, "add_latency")
    /\ metrics' = [ metrics EXCEPT
                      !.lat_ms = DequeAppend(@, handlers[t].latency_ms, DEQUE_MAXLEN) ]
    /\ Goto(t, "add_candidates")
    /\ UNCHANGED <<cache, tally, rest_vars>>

\* RollingStats.add: self.candidates.append(candidate_count)
AddCandidates(t) ==
    /\ At(t, "add_candidates")
    /\ metrics' = [ metrics EXCEPT
                      !.candidates = DequeAppend(@, handlers[t].candidate_count, DEQUE_MAXLEN) ]
    /\ Goto(t, "tie_read")
    /\ UNCHANGED <<cache, tally, rest_vars>>

\* add_tie_stats: the read of its k-th +=
TieRead(t) ==
    /\ At(t, "tie_read")
    /\ handlers' = [ handlers EXCEPT ![t].tmp = metrics[TieFields[handlers[t].k]],
                                     ![t].pc = "tie_write" ]
    /\ UNCHANGED <<cache, metrics, tally, rest_vars>>

\* add_tie_stats: the write of its k-th +=
TieWrite(t) ==
    /\ At(t, "tie_write")
    /\ LET k == handlers[t].k
       IN  /\ metrics' = [ metrics EXCEPT
                             ![TieFields[k]] = handlers[t].tmp + handlers[t].stats[k] ]
           /\ handlers' = [ handlers EXCEPT
                              ![t].k = IF k < 4 THEN k + 1 ELSE k,
                              ![t].pc = IF k < 4 THEN "tie_read" ELSE "cache_store" ]
    /\ UNCHANGED <<cache, tally, rest_vars>>

\* LRUCache.set: self._data[key] = value
CacheStore(t) ==
    /\ At(t, "cache_store")
    /\ cache' = [ cache EXCEPT !.data = DictSet(@, handlers[t].key, handlers[t].payload) ]
    /\ Goto(t, "cache_move")
    /\ UNCHANGED <<metrics, tally, rest_vars>>

\* LRUCache.set: self._data.move_to_end(key), a KeyError when the key is gone
CacheMove(t) ==
    /\ At(t, "cache_move")
    /\ IF handlers[t].key \in CachedKeys(cache)
       THEN /\ cache' = [ cache EXCEPT !.data = MoveToEnd(@, handlers[t].key) ]
            /\ Goto(t, "cache_len")
            /\ UNCHANGED tally
       ELSE /\ Finish(t, "set_failed")
            /\ UNCHANGED cache
    /\ UNCHANGED <<metrics, rest_vars>>

\* LRUCache.set: if len(self._data) > self.maxsize, else return payload
CacheLen(t) ==
    /\ At(t, "cache_len")
    /\ IF Len(cache.data) > cache.maxsize
       THEN Goto(t, "cache_pop") /\ UNCHANGED tally
       ELSE Finish(t, "computed")
    /\ UNCHANGED <<cache, metrics, rest_vars>>

\* LRUCache.set: self._data.popitem(last=False), a KeyError on an empty dict
CachePop(t) ==
    /\ At(t, "cache_pop")
    /\ IF cache.data # << >>
       THEN /\ cache' = [ cache EXCEPT !.data = Tail(@) ]
            /\ Finish(t, "computed")
       ELSE /\ Finish(t, "set_failed")
            /\ UNCHANGED cache
    /\ UNCHANGED <<metrics, rest_vars>>

NextConc ==
    \E t \in Handlers :
        \/ \E req \in ConcRequests : BeginRunMatch(t, req)
        \/ IncRequestRead(t)
        \/ IncRequestWrite(t)
        \/ TopQueriesRead(t)
        \/ TopQueriesWrite(t)
        \/ CacheLookup(t)
        \/ CachePromote(t)
        \/ CacheHitRead(t)
        \/ CacheHitWrite(t)
        \/ SearchStep(t)
        \/ AddLatency(t)
        \/ AddCandidates(t)
        \/ TieRead(t)
        \/ TieWrite(t)
        \/ CacheStore(t)
        \/ CacheMove(t)
        \/ CacheLen(t)
        \/ CachePop(t)

SpecConc == InitConc /\ [][NextConc]_vars

\* every call that was started has completed
Quiescent == \A t \in Handlers : At(t, "idle")

RECURSIVE SumCounts(_)
SumCounts(top) == IF top = << >> THEN 0 ELSE Head(top).count + SumCounts(Tail(top))

\* C10: once N concurrent run_match calls have all completed, total_requests
\* is N, the per-query counts sum to N, and total_cache_hits is the number of
\* calls that returned from the cache
C10_CountersSerialized ==
    Quiescent =>
        /\ metrics.total_requests = tally.started
        /\ SumCounts(metrics.top_queries) = tally.started
        /\ metrics.total_cache_hits = tally.from_cache

\* C11: under every interleaving, no get fails because the key it found was
\* evicted before it was promoted, and once all calls have completed the cache
\* holds at most maxsize entries
C11_CacheOpsAtomic ==
    /\ tally.get_failed = 0
    /\ Quiescent => Len(cache.data) <= cache.maxsize

(***************************************************************************)
(* Repository loading.  A source row is [id, full_name, strict_key]: the   *)
(* strict_key column is empty when the file does not have it.              *)
(* build_repository is the loader app.py imports (storage.py, with         *)
(* STORAGE=csv); build_repository_copy is the loader of "storage copy.py", *)
(* the one that groups the rows and records the member ids.                *)
(***************************************************************************)
\* build_repository of both files: an unknown DATASET_MODE means "original"
EffectiveMode(mode) ==
    IF mode \in { "original", "standardized", "standardized+dedupe" } THEN mode
    ELSE "original"

\* storage.py _build_records_from_csv: one record per row in every mode; a
\* row without a name raises ValueError
build_records_from_csv(rows, mode) ==
    IF \E i \in 1..Len(rows) : rows[i].full_name = << >>
    THEN [ raised |-> "ValueError", records |-> << >> ]
    ELSE [ raised |-> "none",
           records |->
             [ i \in 1..Len(rows) |->
                 [ id |-> rows[i].id,
                   full_name |-> rows[i].full_name,
                   normalized_name |->
                     IF mode \in { "standardized", "standardized+dedupe" }
                        /\ rows[i].strict_key # << >>
                     THEN rows[i].strict_key
                     ELSE normalize(rows[i].full_name) ] ] ]

\* storage.py build_repository, CSV storage: no group is formed and no member
\* list is recorded in any mode
build_repository(rows, mode) ==
    Let(build_records_from_csv(rows, EffectiveMode(mode)), LAMBDA built :
        [ loader |-> "storage",
          mode |-> EffectiveMode(mode),
          rows |-> rows,
          raised |-> built.raised,
          records |-> built.records,
          group_ids |-> << >>,
          stats |-> [ records |-> Len(built.records) ] ])

\* storage copy.py _read_csv_rows: (id, name.strip()), blank names skipped
read_csv_rows(rows) ==
    SelectSeq([ i \in 1..Len(rows) |-> [ id |-> rows[i].id, name |-> Strip(rows[i].full_name) ] ],
              LAMBDA r : r.name # << >>)

\* storage copy.py _strict_key
strict_key(name) == normalize(name)

\* the keys of the dict groups, in insertion order (lines 171-175)
RECURSIVE GroupKeys(_, _, _)
GroupKeys(rows, i, acc) ==
    IF i > Len(rows) THEN acc
    ELSE Let(strict_key(rows[i].name), LAMBDA k :
         Let(IF k = << >> \/ k \in SeqToSet(acc) THEN acc ELSE Append(acc, k),
             LAMBDA next : GroupKeys(rows, i + 1, next)))

\* groups[k]: the rows of key k, in row order
Members(rows, k) == SelectSeq(rows, LAMBDA r : strict_key(r.name) = k)

\* sorted(members, key=lambda x: x[0]), a stable sort
RECURSIVE InsertById(_, _)
InsertById(sorted, m) ==
    IF sorted = << >> THEN << m >>
    ELSE IF m.id < Head(sorted).id THEN << m >> \o sorted
    ELSE << Head(sorted) >> \o InsertById(Tail(sorted), m)

\* mutant of SortById: the members left in row order
SortById_RowOrder(members) == members

RECURSIVE SortById(_)
SortById(members) ==
    IF members = << >> THEN << >>
    ELSE Let(SortById(SubSeq(members, 1, Len(members) - 1)),
             LAMBDA sorted : InsertById(sorted, members[Len(members)]))

\* the records and _GROUP_IDS_BY_REP_ID of lines 177-183, groups being the
\* sorted member lists in the order of the dict; a later group with the same
\* representative id overwrites the list of an earlier one
DedupeResult(keys, groups) ==
    [ records |->
        [ g \in 1..Len(keys) |->
            [ id |-> groups[g][1].id,
              full_name |-> groups[g][1].name,
              normalized_name |-> keys[g] ] ],
      group_ids |->
        [ rid \in { groups[g][1].id : g \in 1..Len(keys) } |->
            LET last == CHOOSE g \in 1..Len(keys) :
                          /\ groups[g][1].id = rid
                          /\ \A h \in 1..Len(keys) : groups[h][1].id = rid => h <= g
            IN  [ j \in 1..Len(groups[last]) |-> groups[last][j].id ] ] ]

\* the 1:1 records of lines 150-155
PlainRecords(rows) ==
    SelectSeq([ i \in 1..Len(rows) |->
                  [ id |-> rows[i].id,
                    full_name |-> rows[i].name,
                    normalized_name |-> normalize(rows[i].name) ] ],
              LAMBDA rec : rec.normalized_name # << >>)

\* storage copy.py build_repository
build_repository_copy(source, mode) ==
    Let(read_csv_rows(source), LAMBDA rows :
        IF EffectiveMode(mode) \in { "original", "standardized" }
        THEN Let(PlainRecords(rows), LAMBDA records :
                 [ loader |-> "storage copy",
                   mode |-> EffectiveMode(mode),
                   rows |-> source,
                   raised |-> "none",
                   records |-> records,
                   group_ids |-> << >>,
                   stats |-> [ sot_rows |-> Len(rows), search_rows |-> Len(records),
                               dedupe_groups |-> 0 ] ])
        ELSE Let(GroupKeys(rows, 1, << >>), LAMBDA keys :
             Let([ g \in 1..Len(keys) |-> SortById(Members(rows, keys[g])) ], LAMBDA groups :
             Let(DedupeResult(keys, groups), LAMBDA out :
                 [ loader |-> "storage copy",
                   mode |-> EffectiveMode(mode),
                   rows |-> source,
                   raised |-> "none",
                   records |-> out.records,
                   group_ids |-> out.group_ids,
                   stats |-> [ sot_rows |-> Len(rows), search_rows |-> Len(out.records),
                               dedupe_groups |-> Len(out.records) ] ]))))

(***************************************************************************)
(* Repository specification: a source table of at most MaxRows rows with   *)
(* unique ids, loaded once by either loader in any mode.  The strict_key   *)
(* column is absent, or holds what the cleaning stage computes, the        *)
(* normalized name.                                                        *)
(***************************************************************************)
MaxRows == 3

RowNames ==
    { <<"A","n","a">>, <<"D","r","."," ","A","n","a">>, <<"J","o">>, <<"7">>, <<" ">> }

Modes == { "original", "standardized", "standardized+dedupe", "dedupe" }

TablesOf(n) ==
    { t \in [ 1..n -> [ id : 1..MaxRows, full_name : RowNames, strict_key : { << >> } ] ] :
        \A i, j \in 1..n : i # j => t[i].id # t[j].id }

WithStrictKey(t) ==
    [ i \in 1..Len(t) |-> [ t[i] EXCEPT !.strict_key = normalize(t[i].full_name) ] ]

InitLoad ==
    /\ NormalizerIdle
    /\ HandlersIdle
    /\ HistoryIdle
    /\ ServiceIdle
    /\ engine = SearchEngine(<< >>, NGRAM_N, 1)
    /\ calls = << >>
    /\ \E n \in 0..MaxRows : \E t \in TablesOf(n) : \E has_key \in BOOLEAN :
         repo = [ loader |-> "none", rows |-> IF has_key THEN WithStrictKey(t) ELSE t ]

other_vars == <<normalizer_vars, engine, calls, service_vars, history_vars, handler_vars>>

\* startup calls build_repository of storage.py
LoadStorage(mode) ==
    /\ repo.loader = "none"
    /\ repo' = build_repository(repo.rows, mode)
    /\ UNCHANGED other_vars

\* build_repository of storage copy.py
LoadStorageCopy(mode) ==
    /\ repo.loader = "none"
    /\ repo' = build_repository_copy(repo.rows, mode)
    /\ UNCHANGED other_vars

NextLoad == \E mode \in Modes : LoadStorage(mode) \/ LoadStorageCopy(mode)

SpecLoad == InitLoad /\ [][NextLoad]_vars

Loaded == repo.loader # "none"

DedupeLoad == Loaded /\ repo.mode = "standardized+dedupe" /\ repo.raised = "none"

\* the normalized key of a source row
RowKey(row) == normalize(row.full_name)

\* the source rows that share the key k
RowsOfKey(k) == { i \in 1..Len(repo.rows) : RowKey(repo.rows[i]) = k }

\* the row of minimum id among the rows of key k
MinRow(k) ==
    repo.rows[CHOOSE i \in RowsOfKey(k) :
                \A j \in RowsOfKey(k) : repo.rows[i].id <= repo.rows[j].id]

SourceKeys == { RowKey(repo.rows[i]) : i \in 1..Len(repo.rows) } \ { << >> }

\* C12: in mode standardized+dedupe the load yields exactly one record per
\* distinct non-empty normalized key of the source rows, with the minimum id
\* of the rows sharing the key and the name of that row, and no two records
\* share an id or a normalized_name
C12_OneRecordPerKey ==
    DedupeLoad =>
        /\ Len(repo.records) = Cardinality(SourceKeys)
        /\ \A k \in SourceKeys :
             \E i \in 1..Len(repo.records) :
                /\ repo.records[i].normalized_name = k
                /\ repo.records[i].id = MinRow(k).id
                /\ repo.records[i].full_name = MinRow(k).full_name
        /\ \A i, j \in 1..Len(repo.records) :
             i # j => /\ repo.records[i].id # repo.records[j].id
                      /\ repo.records[i].normalized_name # repo.records[j].normalized_name

RECURSIVE SumLen(_, _)
SumLen(f, S) ==
    IF S = {} THEN 0
    ELSE Let(CHOOSE x \in S : TRUE, LAMBDA x : Len(f[x]) + SumLen(f, S \ {x}))

\* the ids of the source rows whose normalized key is not empty
KeyedIds == { repo.rows[i].id : i \in { j \in 1..Len(repo.rows) : RowKey(repo.rows[j]) # << >> } }

\* C13: after a dedupe load that records member-id lists, the lists partition
\* the source rows with non-empty key: their lengths sum to the number of
\* source rows minus the rows with empty key, each list is sorted ascending,
\* and each representative id is the minimum of its own list
C13_GroupListsPartition ==
    ( DedupeLoad /\ repo.loader = "storage copy" ) =>
        LET lists == repo.group_ids
            reps  == DOMAIN lists
        IN  /\ SumLen(lists, reps)
                  = Len(repo.rows)
                    - Cardinality({ i \in 1..Len(repo.rows) : RowKey(repo.rows[i]) = << >> })
            /\ UNION { SeqToSet(lists[r]) : r \in reps } = KeyedIds
            /\ \A r \in reps :
                  /\ lists[r] # << >>
                  /\ \A a, b \in 1..Len(lists[r]) : a < b => lists[r][a] <= lists[r][b]
                  /\ \A a \in 1..Len(lists[r]) : r <= lists[r][a]
                  /\ r = lists[r][1]
            /\ reps = { repo.records[i].id : i \in 1..Len(repo.records) }

\* three rows: ids 2 and 1 share a key, the larger id first, and the third
\* row has an empty key
C13_Witness ==
    /\ DedupeLoad
    /\ repo.loader = "storage copy"
    /\ Len(repo.rows) = 3
    /\ repo.rows[1].id = 2
    /\ repo.rows[2].id = 1
    /\ RowKey(repo.rows[1]) = RowKey(repo.rows[2])
    /\ RowKey(repo.rows[3]) = << >>
    /\ repo.group_ids = ( 1 :> << 1, 2 >> )

(***************************************************************************)
(* Tie specification: sequential run_match calls over an index in which    *)
(* one query ties on the displayed similarity with different token scores, *)
(* one with different edit scores only, and one with equal scores.         *)
(***************************************************************************)
RowsD ==
    << [ id |-> 1, full_name |-> <<"j","o"," ","j","o","s","e">> ],
       [ id |-> 2, full_name |-> <<"a"," ","a","n","a">> ],
       [ id |-> 3, full_name |-> <<"a","n","a">> ],
       [ id |-> 5, full_name |-> <<"J","o">> ],
       [ id |-> 6, full_name |-> <<"D","r","."," ","J","o">> ] >>

\* the dataset of the worked example
RowsE ==
    << [ id |-> 1, full_name |-> <<"J","u","a","n"," ","P","e_acute","r","e","z">> ],
       [ id |-> 2, full_name |-> <<"P","e_acute","r","e","z",","," ","J","u","a","n">> ] >>

JuanPerez == <<"J","u","a","n"," ","P","e","r","e","z">>

TieRequests ==
    { BaseRequest,
      [ BaseRequest EXCEPT !.name = JuanPerez ],
      [ BaseRequest EXCEPT !.name = <<"A","n","a"," ","J","o","s","e">>, !.w_token = 90 ],
      [ BaseRequest EXCEPT !.w_token = 100 ],
      [ BaseRequest EXCEPT !.name = <<"J","o">> ] }

InitTies ==
    /\ NormalizerIdle
    /\ HandlersIdle
    /\ RepoIdle
    /\ HistoryIdle
    /\ \E rows \in { RowsD, RowsE } :
         engine = SearchEngine(build_records(rows), NGRAM_N, MaxCandidatesBound)
    /\ calls = << >>
    /\ \E c \in 1..MaxCacheSize : cache = LRUCache(c)
    /\ metrics = NewMetrics
    /\ log = << >>

NextTies == \E req \in TieRequests : RunMatch(req)

SpecTies == InitTies /\ [][NextTies]_vars

\* the positions at which a maximal run of length > 1 of equal displayed
\* similarity starts
TieGroupStarts(matches) ==
    { i \in 1..(Len(matches) - 1) :
        /\ matches[i + 1].similarity = matches[i].similarity
        /\ i > 1 => matches[i - 1].similarity # matches[i].similarity }

\* C14: for every result list compute_tie_break_stats counts each tie group
\* once, groups_total = by_token + by_edit + by_id, and after any sequence of
\* requests tie_groups_total = by_token + by_edit + by_id in the metrics
C14_TieTotalsAddUp ==
    /\ metrics.tie_groups_total
          = metrics.tie_resolved_by_token + metrics.tie_resolved_by_edit
            + metrics.tie_resolved_by_id
    /\ \A i \in 1..Len(log) :
          log[i].tie_stats # << >> =>
              /\ log[i].tie_stats[1] = Cardinality(TieGroupStarts(log[i].matches))
              /\ log[i].tie_stats[1]
                    = log[i].tie_stats[2] + log[i].tie_stats[3] + log[i].tie_stats[4]

\* three searches, one tie group of each kind
C14_Witness ==
    /\ metrics.tie_groups_total = 3
    /\ metrics.tie_resolved_by_token = 1
    /\ metrics.tie_resolved_by_edit = 1
    /\ metrics.tie_resolved_by_id = 1

\* a logged call that searched for "Juan Perez" in the dataset of the example
ExampleSearch(e) ==
    /\ engine.order = << 1, 2 >>
    /\ engine.records_by_id[1].full_name = RowsE[1].full_name
    /\ engine.records_by_id[2].full_name = RowsE[2].full_name
    /\ e.request = [ BaseRequest EXCEPT !.name = JuanPerez ]
    /\ e.tie_stats # << >>

juan_perez == <<"j","u","a","n"," ","p","e","r","e","z">>

perez_juan == <<"p","e","r","e","z"," ","j","u","a","n">>

\* C15 as stated: both records normalize to "juan perez", both are returned
\* with similarity 100.0 in the order [1, 2], and the tie group is counted as
\* resolved by id
C15_ExampleTie ==
    \A i \in 1..Len(log) :
        ExampleSearch(log[i]) =>
            /\ engine.records_by_id[1].normalized_name = juan_perez
            /\ engine.records_by_id[2].normalized_name = juan_perez
            /\ [ j \in 1..Len(log[i].matches) |-> log[i].matches[j].id ] = << 1, 2 >>
            /\ \A j \in 1..Len(log[i].matches) : log[i].matches[j].similarity = 10000
            /\ log[i].tie_stats = << 1, 0, 0, 1 >>

\* C15 amended: record 1 normalizes to "juan perez" and record 2 to
\* "perez juan"; both are returned in the order [1, 2], record 1 with
\* similarity 100.0 and record 2 with similarity 82.5 (token score 100.0, edit
\* score 50.0), and no tie group is counted
C15_ExampleNoTie ==
    \A i \in 1..Len(log) :
        ExampleSearch(log[i]) =>
            /\ normalize(JuanPerez) = juan_perez
            /\ engine.records_by_id[1].normalized_name = juan_perez
            /\ engine.records_by_id[2].normalized_name = perez_juan
            /\ [ j \in 1..Len(log[i].matches) |-> log[i].matches[j].id ] = << 1, 2 >>
            /\ log[i].matches[1].similarity = 10000
            /\ log[i].matches[2].similarity = 8250
            /\ log[i].matches[2].token_score = 10000
            /\ log[i].matches[2].edit_score = 5000
            /\ log[i].tie_stats = << 0, 0, 0, 0 >>

\* the example query was searched
C15_Witness == \E i \in 1..Len(log) : ExampleSearch(log[i]) /\ Len(log[i].matches) = 2

\* C16: normalize returns a text for every input, and the empty text for an
\* empty or null input (both generations of the normalizer)
C16_NormalizeTotal ==
    /\ \A i \in 1..Len(n_out) : \A j \in 1..Len(n_out[i]) : n_out[i][j] \in SeqToSet(Alphabet)
    /\ \A i \in 1..Len(l_out) : \A j \in 1..Len(l_out[i]) : l_out[i][j] \in SeqToSet(Alphabet)
    /\ n_in \in { << >>, None } =>
          /\ Len(n_out) >= 1 => n_out[1] = << >>
          /\ Len(l_out) >= 1 => l_out[1] = << >>

(***************************************************************************)
(* Index construction specification: the service starts with a source      *)
(* table and the configured n-gram length (NGRAM_N of the environment, any *)
(* integer), builds the engine, and then generates candidates.             *)
(***************************************************************************)
MaxNgram == 3

NgramLengths == (0 - 2)..MaxNgram

\* the engine before SearchEngine(...) has run
Unbuilt(rows, n, mc) == [ rows |-> rows, ngram_n |-> n, max_candidates |-> mc ]

IsBuilt(eng) == "inverted" \in DOMAIN eng

InitIndex ==
    /\ NormalizerIdle
    /\ HandlersIdle
    /\ RepoIdle
    /\ ServiceIdle
    /\ HistoryIdle
    /\ \E rows \in SourceTables, n \in NgramLengths, mc \in 1..MaxCandidatesBound :
         engine = Unbuilt(rows, n, mc)
    /\ calls = << >>

\* startup: SearchEngine(repo, SearchConfig(ngram_n, max_candidates))
BuildIndex ==
    /\ ~IsBuilt(engine)
    /\ engine' = SearchEngine(build_records(engine.rows), engine.ngram_n,
                              engine.max_candidates)
    /\ UNCHANGED <<normalizer_vars, calls, service_vars, history_vars, handler_vars, repo>>

\* engine.candidate_ids(query_norm)
Candidates(query_norm) ==
    /\ IsBuilt(engine)
    /\ calls = << >>
    /\ \E cand_ids \in candidate_ids(engine, query_norm) :
         calls' = << [ fn |-> "candidate_ids", query_norm |-> query_norm,
                       raised |-> "none", cand_ids |-> cand_ids ] >>
    /\ UNCHANGED <<normalizer_vars, engine, service_vars, history_vars, handler_vars, repo>>

\* the first-generation char_ngrams called with the same n
LegacyNgrams(text) ==
    /\ IsBuilt(engine)
    /\ calls = << >>
    /\ \E out \in { legacy_char_ngrams(text, engine.ngram_n) } :
         calls' = << [ fn |-> "legacy_char_ngrams", query_norm |-> text,
                       raised |-> out.raised, grams |-> out.grams ] >>
    /\ UNCHANGED <<normalizer_vars, engine, service_vars, history_vars, handler_vars, repo>>

NextIndex ==
    \/ BuildIndex
    \/ \E q \in Queries : Candidates(q)
    \/ \E q \in Queries : LegacyNgrams(q)

SpecIndex == InitIndex /\ [][NextIndex]_vars

\* C17: with an n-gram length n <= 0 no index is built and no n-grams or
\* candidates are returned: the construction or the call raises instead
C17_RejectsBadNgramLength ==
    engine.ngram_n <= 0 =>
        /\ ~IsBuilt(engine)
        /\ \A i \in 1..Len(calls) : calls[i].raised # "none"

\* the tie-break totals of the metrics
TieTotals(m) ==
    << m.tie_groups_total, m.tie_resolved_by_token, m.tie_resolved_by_edit,
       m.tie_resolved_by_id >>

\* the key/response pairs the cache holds
CachedEntries(c) == { c.data[i] : i \in 1..Len(c.data) }

\* the effects of a call answered from the cache
HitEffects(e) ==
    /\ KeyOf(e) \in CachedKeys(cache)
    /\ metrics'.total_cache_hits = metrics.total_cache_hits + 1
    /\ metrics'.lat_ms = metrics.lat_ms
    /\ metrics'.candidates = metrics.candidates
    /\ TieTotals(metrics') = TieTotals(metrics)
    /\ CachedEntries(cache') = CachedEntries(cache)
    /\ [ key |-> KeyOf(e), value |-> e.response ] \in CachedEntries(cache)

\* the effects of a call that ran the search
MissEffects(e) ==
    /\ KeyOf(e) \notin CachedKeys(cache)
    /\ metrics'.total_cache_hits = metrics.total_cache_hits
    /\ Len(metrics'.lat_ms) = Len(metrics.lat_ms) + 1
    /\ Len(metrics'.candidates) = Len(metrics.candidates) + 1
    /\ SubSeq(metrics'.lat_ms, 1, Len(metrics.lat_ms)) = metrics.lat_ms
    /\ SubSeq(metrics'.candidates, 1, Len(metrics.candidates)) = metrics.candidates
    /\ [ key |-> KeyOf(e), value |-> e.response ] \in CachedEntries(cache')

\* C18: every run_match call adds one to total_requests and is either a cache
\* hit (one more total_cache_hits; rolling windows, tie-break totals and set of
\* cached entries unchanged) or a miss (one observation appended to each
\* rolling window, the response stored in the cache); so total_cache_hits <=
\* total_requests and total_requests = total_cache_hits + recorded searches
C18_RunMatchFrame ==
    /\ [][ /\ metrics'.total_requests = metrics.total_requests + 1
           /\ HitEffects(Last(log')) \/ MissEffects(Last(log')) ]_vars
    /\ [](/\ metrics.total_cache_hits <= metrics.total_requests
          /\ metrics.total_requests = metrics.total_cache_hits + Len(metrics.lat_ms))

\* a miss followed by a hit on the entry it stored
C18_Witness ==
    /\ Len(log) = 2
    /\ metrics.total_requests = 2
    /\ metrics.total_cache_hits = 1
    /\ Len(metrics.lat_ms) = 1
    /\ log[2].hits_after = log[2].hits_before + 1
    /\ log[2].response = log[1].response

(***************************************************************************)
(* Rolling-window specification: a Metrics whose RollingStats was made     *)
(* with a capacity maxlen receives a sequence of add_search_stats calls.   *)
(* The log keeps every observation in arrival order.                       *)
(***************************************************************************)
MaxWindow == 3

MaxAdds == 4

\* RollingStats(maxlen=...): the field is kept, both deques are made with
\* deque(maxlen=5000) whatever the field says
RollingStats(maxlen) == [ maxlen |-> maxlen, lat_ms |-> << >>, candidates |-> << >> ]

Capacities == 1..MaxWindow \cup { DEQUE_MAXLEN }

CandidateCounts == 0..2

InitRolling ==
    /\ NormalizerIdle
    /\ HandlersIdle
    /\ RepoIdle
    /\ HistoryIdle
    /\ engine = SearchEngine(<< >>, NGRAM_N, 1)
    /\ calls = << >>
    /\ cache = LRUCache(1)
    /\ \E maxlen \in Capacities : metrics = RollingStats(maxlen) @@ NewMetrics
    /\ log = << >>

\* metrics.add_search_stats(latency_ms, candidate_count)
AddSearchStats(latency_ms, candidate_count) ==
    /\ Len(log) < MaxAdds
    /\ metrics' = add_search_stats(metrics, latency_ms, candidate_count)
    /\ log' = Append(log, [ latency_ms |-> latency_ms, candidate_count |-> candidate_count ])
    /\ UNCHANGED <<normalizer_vars, engine, calls, cache, history_vars, handler_vars, repo>>

NextRolling ==
    \E latency_ms \in Latencies, candidate_count \in CandidateCounts :
        AddSearchStats(latency_ms, candidate_count)

SpecRolling == InitRolling /\ [][NextRolling]_vars

\* the last k elements of a sequence, or all of it
Recent(seq, k) == IF Len(seq) <= k THEN seq ELSE SubSeq(seq, Len(seq) - k + 1, Len(seq))

\* C19: the two windows have the same length, never more than the capacity
\* maxlen of the RollingStats, and hold the most recent observations in
\* arrival order
C19_WindowsBounded ==
    /\ Len(metrics.lat_ms) = Len(metrics.candidates)
    /\ Len(metrics.lat_ms) <= metrics.maxlen
    /\ metrics.lat_ms =
           Recent([ i \in 1..Len(log) |-> log[i].latency_ms ], metrics.maxlen)
    /\ metrics.candidates =
           Recent([ i \in 1..Len(log) |-> log[i].candidate_count ], metrics.maxlen)

\* C20 as stated: the candidate_count of a search_explain call never exceeds
\* max_candidates, whatever the query
C20_CandidateCap ==
    \A i \in 1..Len(calls) : calls[i].out.candidate_count <= engine.max_candidates

\* C20 amended: when the union of the posting lists of the query's n-grams is
\* not empty, candidate_count is the size of the union capped at
\* max_candidates; when it is empty, candidate_count is the number of records
\* of the index, which can exceed max_candidates
C20_CandidateCapUnlessFallback ==
    \A i \in 1..Len(calls) :
        LET ids == PostingUnion(engine, calls[i].query_norm)
            count == calls[i].out.candidate_count
        IN  IF ids = {} THEN count = Len(engine.order)
            ELSE /\ count <= engine.max_candidates
                 /\ count <= Cardinality(ids)
                 /\ count = engine.max_candidates \/ count = Cardinality(ids)

\* one index answers a query that misses every posting list with more than
\* max_candidates candidates
C20_Witness ==
    \E i \in 1..Len(calls) :
        /\ PostingUnion(engine, calls[i].query_norm) = {}
        /\ calls[i].out.candidate_count > engine.max_candidates

\* a union larger than max_candidates was cut down to max_candidates
C20_TruncationSeen ==
    \E i \in 1..Len(calls) :
        /\ Cardinality(PostingUnion(engine, calls[i].query_norm)) > engine.max_candidates
        /\ calls[i].out.candidate_count = engine.max_candidates

(***************************************************************************)
(* Long-name specification: the service over two long one-word names       *)
(* receives requests for the one-letter name "a".                          *)
(***************************************************************************)
\* the text made of n copies of the character c
Repeated(c, n) == [ i \in 1..n |-> c ]

\* two long one-word names that share one character with the query "a": the
\* longer name has the smaller id
RowsF ==
    << [ id |-> 1, full_name |-> << "a" >> \o Repeated("b", 150) ],
       [ id |-> 2, full_name |-> << "a" >> \o Repeated("b", 149) ] >>

LongNameRequests ==
    { [ name |-> << "a" >>, threshold |-> t, limit |-> 3, w_token |-> 65,
        explain |-> e, include_by_id |-> TRUE ] :
      t \in { 0, 70 }, e \in BOOLEAN }

InitLongNames ==
    /\ NormalizerIdle
    /\ HandlersIdle
    /\ RepoIdle
    /\ HistoryIdle
    /\ engine = SearchEngine(build_records(RowsF), NGRAM_N, MaxCandidatesBound)
    /\ calls = << >>
    /\ \E c \in 1..MaxCacheSize : cache = LRUCache(c)
    /\ metrics = NewMetrics
    /\ log = << >>

NextLongNames == \E req \in LongNameRequests : RunMatch(req)

SpecLongNames == InitLongNames /\ [][NextLongNames]_vars

\* the tie groups of a result list that compute_tie_break_stats counts as
\* resolved by id: a maximal run of equal displayed similarity whose
\* displayed token_score and edit_score are equal too, as << first, last >>
ByIdGroups(matches) ==
    { << i, RunEnd(matches, i, i + 1) - 1 >> : i \in
        { g \in TieGroupStarts(matches) :
            \A k \in g..(RunEnd(matches, g, g + 1) - 1) :
                /\ matches[k].token_score = matches[g].token_score
                /\ matches[k].edit_score = matches[g].edit_score } }

\* C21: in every result list of search_explain, each tie group counted as
\* resolved by id lists its members in strictly ascending id order
C21_ByIdGroupsAscending ==
    \A i \in 1..Len(log) :
        \A g \in ByIdGroups(log[i].matches) :
            \A k \in g[1]..(g[2] - 1) :
                log[i].matches[k].id < log[i].matches[k + 1].id

====
